---------------------------- MODULE Spec2Model ----------------------------
(***************************************************************************)
(* PR-comment-analyzer: scripts/gitlab_mr_stats.py and scripts/pr_stats.py *)
(*                                                                         *)
(* The model covers the business-hours calculator, the GitLab and GitHub   *)
(* get_first_review_time and the aggregation step of main, each under a    *)
(* specification of its own: SpecBusinessHours, SpecClassifier and         *)
(* SpecGitLabReview, SpecGitHubReview, SpecAggregate.  Spec is main of     *)
(* gitlab_mr_stats.py from the fetched requests on: the thread pool, its   *)
(* workers, the collection of their results and the aggregation.           *)
(*                                                                         *)
(* Time.  A datetime is a record [day, sec, us]: the calendar date as a    *)
(* day number (day 0 is a Monday, so date.weekday() is day % 7), the       *)
(* second of the day and the microsecond of the second.  A timedelta, and  *)
(* every amount of hours computed from one by total_seconds() / 3600, is a *)
(* record [s, us] standing for s * 10^6 + us microseconds with             *)
(* 0 <= us < 10^6, which is how Python normalises a timedelta; the number  *)
(* of hours is that amount divided by 3.6 * 10^9, kept exact.              *)
(*                                                                         *)
(* Optional values.  Python's None is the empty sequence and a value v     *)
(* that may be None is <<v>>.                                              *)
(***************************************************************************)
EXTENDS Integers, Sequences, FiniteSets, TLC

VARIABLES
    pc,                     \* position of the unit under execution
    \* calculate_business_hours
    start_time,             \* argument
    end_time,               \* argument
    total_hours,            \* returned value: the amount of time it stands for
    split_time,             \* an instant between the two arguments
    float_hours,            \* returned values, as the floats they are
    \* get_first_review_time
    mr_created_at,          \* argument: the request's creation instant
    notes_response,         \* GitLab: what GET .../notes answers
    mr_response,            \* GitLab: what GET .../merge_requests/<iid> answers
    approvals_response,     \* GitLab: what GET .../approvals answers
    comments_response,      \* GitHub: what GET .../comments answers
    reviews_response,       \* GitHub: what GET .../reviews answers
    review_activities,      \* GitLab: the local list when the function exits
    earliest_review_time,   \* the local when the function exits
    returned_hours,         \* returned value: business hours, or None
    \* main
    merge_requests,         \* the fetched requests
    comment_counts,         \* one comment count per request
    review_times,           \* one review time, or None, per request
    mrs_with_activity,
    activity_comment_counts,
    activity_review_times,
    report,                 \* what main prints
    \* the ThreadPoolExecutor of main
    comment_workers,        \* one future per request, in submission order
    review_time_workers,    \* one future per request, in submission order
    work_queue,             \* the executor's queue of work items not yet taken
    collected,              \* the list a comprehension over worker.result() builds
    uncaught                \* the exception that leaves main, or None

bhVars == <<start_time, end_time, total_hours, split_time, float_hours>>
serverVars == <<notes_response, mr_response, approvals_response,
                comments_response, reviews_response>>
reviewVars == <<mr_created_at, review_activities, earliest_review_time,
                returned_hours>>
inputVars == <<merge_requests, comment_counts, review_times>>
aggVars == <<mrs_with_activity, activity_comment_counts, activity_review_times,
             report>>

poolVars == <<comment_workers, review_time_workers, work_queue, collected,
              uncaught>>

vars == <<pc, bhVars, serverVars, reviewVars, inputVars, aggVars, poolVars>>

None == <<>>
Some(v) == <<v>>

-----------------------------------------------------------------------------
(* Bounds of the model *)

\* the calendar covers days 0..MaxDay (two weeks from a Monday)
MaxDay == 13

\* most notes a notes response holds
MaxNotes == 2

\* most records an approvals response holds
MaxApprovals == 2

\* most items a GitHub comments or reviews response holds
MaxItems == 2

\* most requests main has fetched
MaxRequests == 3

\* the calls that are split cover days 0..MaxSplitDay
MaxSplitDay == 7

\* most requests main hands to the pool
MaxPoolRequests == 2

\* threads of the pool: max_workers, 10 in the source, scaled to the number
\* of work items of the model so that work items wait in the queue
MaxWorkers == 2

-----------------------------------------------------------------------------
(* datetime and timedelta arithmetic *)

SecondsPerDay == 86400
MicrosPerSecond == 1000000

\* timedelta(0)
ZeroDelta == [s |-> 0, us |-> 0]

\* timedelta: h whole hours
Hours(h) == [s |-> h * 3600, us |-> 0]

\* datetime - datetime -> timedelta (normalised: 0 <= us < 10^6, s may be negative)
DatetimeSub(a, b) ==
    LET s  == (a.day - b.day) * SecondsPerDay + (a.sec - b.sec)
        us == a.us - b.us
    IN  IF us < 0 THEN [s |-> s - 1, us |-> us + MicrosPerSecond]
                  ELSE [s |-> s, us |-> us]

\* total_hours += hours
DeltaAdd(x, y) ==
    LET us == x.us + y.us
    IN  IF us >= MicrosPerSecond
            THEN [s |-> x.s + y.s + 1, us |-> us - MicrosPerSecond]
            ELSE [s |-> x.s + y.s, us |-> us]

\* datetime comparison a >= b
DatetimeGE(a, b) ==
    \/ a.day > b.day
    \/ a.day = b.day /\ a.sec > b.sec
    \/ a.day = b.day /\ a.sec = b.sec /\ a.us >= b.us

DatetimeLT(a, b) == ~DatetimeGE(a, b)

\* datetime.weekday(): 0 is Monday, 6 is Sunday
Weekday(t) == t.day % 7

\* current.replace(hour=23, minute=59, second=59, microsecond=999999)
EndOfDay(t) == [day |-> t.day, sec |-> SecondsPerDay - 1, us |-> MicrosPerSecond - 1]

\* (current + timedelta(days=1)).replace(hour=0, minute=0, second=0, microsecond=0)
NextMidnight(t) == [day |-> t.day + 1, sec |-> 0, us |-> 0]

\* datetime + timedelta(hours=24)
PlusOneDay(t) == [day |-> t.day + 1, sec |-> t.sec, us |-> t.us]

\* variant: Saturday taken for a business day
IsBusinessDay_SaturdayCounted(t) == Weekday(t) < 6

\* current.weekday() < 5
IsBusinessDay(t) == Weekday(t) < 5

-----------------------------------------------------------------------------
(* calculate_business_hours *)

\* hours_in_day = (end_of_day - current).total_seconds() / 3600
HoursInDay(current) == DatetimeSub(EndOfDay(current), current)

\* the while loop: the state [current, total_hours] when it exits
RECURSIVE DayWalk(_, _, _)
DayWalk(current, end, total) ==
    IF current.day < end.day
        THEN DayWalk(NextMidnight(current), end,
                     IF IsBusinessDay(current)
                         THEN DeltaAdd(total, HoursInDay(current))
                         ELSE total)
        ELSE [current |-> current, total_hours |-> total]

\* variant: the final day counted whatever day of the week it is
FinalDayCounts_AnyDay(current, end) == current.day = end.day

\* if current.date() == end_time.date() and current.weekday() < 5
FinalDayCounts(current, end) == current.day = end.day /\ IsBusinessDay(current)

\* the loop followed by the final partial day
BusinessHoursWalk(start, end) ==
    LET w == DayWalk(start, end, ZeroDelta)
    IN  IF FinalDayCounts(w.current, end)
            THEN DeltaAdd(w.total_hours, DatetimeSub(end, w.current))
            ELSE w.total_hours

\* variant: without the guard on start_time >= end_time
calculate_business_hours_unguarded(start, end) == BusinessHoursWalk(start, end)

\* calculate_business_hours(start_time, end_time)
calculate_business_hours(start, end) ==
    IF DatetimeGE(start, end) THEN ZeroDelta ELSE BusinessHoursWalk(start, end)

-----------------------------------------------------------------------------
(* Integers wider than a machine word *)

\* The microseconds of a timedelta and the significand of a float are
\* sequences of limbs, the most significant first, without leading zeros;
\* 0 is the empty sequence.
LimbBits == 10
LimbBase == 2^LimbBits

RECURSIVE BigNorm(_)
BigNorm(x) == IF x # <<>> /\ Head(x) = 0 THEN BigNorm(Tail(x)) ELSE x

\* 0 <= n < LimbBase^3
BigFromInt(n) ==
    BigNorm(<<n \div (LimbBase * LimbBase), (n \div LimbBase) % LimbBase, n % LimbBase>>)

\* x with leading zeros, n limbs in all
BigPad(x, n) == [i \in 1..n |-> IF i <= n - Len(x) THEN 0 ELSE x[i - (n - Len(x))]]

\* k zero limbs
BigZeros(k) == [i \in 1..k |-> 0]

RECURSIVE BigAddFrom(_, _, _, _, _)
BigAddFrom(x, y, i, carry, acc) ==
    IF i = 0
        THEN BigNorm(<<carry>> \o acc)
        ELSE LET v == x[i] + y[i] + carry
             IN  BigAddFrom(x, y, i - 1, v \div LimbBase, <<v % LimbBase>> \o acc)

\* x + y
BigAdd(x, y) ==
    LET n == IF Len(x) > Len(y) THEN Len(x) ELSE Len(y)
    IN  BigAddFrom(BigPad(x, n), BigPad(y, n), n, 0, <<>>)

RECURSIVE BigSubFrom(_, _, _, _, _)
BigSubFrom(x, y, i, borrow, acc) ==
    IF i = 0
        THEN BigNorm(acc)
        ELSE LET v == x[i] - y[i] - borrow
             IN  BigSubFrom(x, y, i - 1, IF v < 0 THEN 1 ELSE 0,
                            <<IF v < 0 THEN v + LimbBase ELSE v>> \o acc)

\* x < y
BigLess(x, y) ==
    \/ Len(x) < Len(y)
    \/ /\ Len(x) = Len(y)
       /\ \E i \in 1..Len(x) : x[i] < y[i] /\ \A j \in 1..(i - 1) : x[j] = y[j]

\* |x - y|
BigDistance(x, y) ==
    LET n == IF Len(x) > Len(y) THEN Len(x) ELSE Len(y)
    IN  IF BigLess(x, y)
            THEN BigSubFrom(BigPad(y, n), BigPad(x, n), n, 0, <<>>)
            ELSE BigSubFrom(BigPad(x, n), BigPad(y, n), n, 0, <<>>)

RECURSIVE BigMulSmallFrom(_, _, _, _, _)
BigMulSmallFrom(x, f, i, carry, acc) ==
    IF i = 0
        THEN BigNorm(<<carry>> \o acc)
        ELSE LET v == x[i] * f + carry
             IN  BigMulSmallFrom(x, f, i - 1, v \div LimbBase, <<v % LimbBase>> \o acc)

\* x * f, for 0 <= f <= LimbBase
BigMulSmall(x, f) == BigMulSmallFrom(x, f, Len(x), 0, <<>>)

RECURSIVE BigDivSmallFrom(_, _, _, _, _)
BigDivSmallFrom(x, d, i, rem, acc) ==
    IF i > Len(x)
        THEN [q |-> BigNorm(acc), r |-> rem]
        ELSE LET cur == rem * LimbBase + x[i]
             IN  BigDivSmallFrom(x, d, i + 1, cur % d, Append(acc, cur \div d))

\* the quotient q and the remainder r of x by d, for 0 < d < 2^21
BigDivSmall(x, d) == BigDivSmallFrom(x, d, 1, 0, <<>>)

\* x * 2^k
BigShiftLeft(x, k) ==
    IF x = <<>> THEN <<>>
    ELSE BigMulSmall(x, 2^(k % LimbBits)) \o BigZeros(k \div LimbBits)

\* x \div 2^k, and whether a bit that is 1 was shifted out
BigShiftRight(x, k) ==
    LET keep == IF Len(x) > k \div LimbBits THEN Len(x) - k \div LimbBits ELSE 0
        d == BigDivSmall(SubSeq(x, 1, keep), 2^(k % LimbBits))
    IN  [q |-> d.q,
         sticky |-> d.r # 0 \/ \E i \in (keep + 1)..Len(x) : x[i] # 0]

\* the number of bits of x
BigBitLen(x) ==
    IF x = <<>> THEN 0
    ELSE LimbBits * (Len(x) - 1)
           + (CHOOSE k \in 1..LimbBits : 2^(k - 1) <= Head(x) /\ Head(x) < 2^k)

-----------------------------------------------------------------------------
(* float: binary64, round to nearest, ties to even *)

\* A float that is not negative is [m, e] for m * 2^e, m of exactly
\* MantissaBits bits; 0.0 (and the int 0, which equals it) is FloatZero.
MantissaBits == 53

FloatZero == [m |-> <<>>, e |-> 0]

\* The float nearest to x * 2^e, for x of more than MantissaBits bits;
\* sticky tells that the exact value lies above x * 2^e, by less than 2^e.
FloatRound(x, sticky, e) ==
    LET j == BigBitLen(x) - (MantissaBits + 1)
        sh == BigShiftRight(x, j)
        half == BigDivSmall(sh.q, 2)
        odd == half.q[Len(half.q)] % 2 = 1
        up == half.r = 1 /\ (sh.sticky \/ sticky \/ odd)
        m == IF up THEN BigAdd(half.q, <<1>>) ELSE half.q
    IN  IF BigBitLen(m) > MantissaBits
            THEN [m |-> BigDivSmall(m, 2).q, e |-> e + j + 2]
            ELSE [m |-> m, e |-> e + j + 1]

\* int / int for the int n (a sequence of limbs) and 0 < d < 2^20
IntTrueDiv(n, d) ==
    IF n = <<>> THEN FloatZero
    ELSE LET dv == BigDivSmall(n \o BigZeros(8), d)
         IN  FloatRound(dv.q, dv.r # 0, 0 - 8 * LimbBits)

\* float / int, for 0 < d < 2^20
FloatDivInt(x, d) ==
    IF x.m = <<>> THEN FloatZero
    ELSE LET dv == BigDivSmall(x.m \o BigZeros(8), d)
         IN  FloatRound(dv.q, dv.r # 0, x.e - 8 * LimbBits)

\* float + float
FloatAdd(x, y) ==
    IF x.m = <<>> THEN y
    ELSE IF y.m = <<>> THEN x
    ELSE LET e == IF x.e < y.e THEN x.e ELSE y.e
             sum == BigAdd(BigShiftLeft(x.m, x.e - e), BigShiftLeft(y.m, y.e - e))
         IN  FloatRound(sum \o BigZeros(1), FALSE, e - LimbBits)

\* float <= float
FloatLE(x, y) ==
    \/ x.m = <<>>
    \/ /\ y.m # <<>>
       /\ \/ x.e < y.e
          \/ x.e = y.e /\ ~BigLess(y.m, x.m)

\* the microseconds of a timedelta that is not negative, as an int
TimedeltaMicroseconds(delta) ==
    BigAdd(BigMulSmall(BigMulSmall(BigFromInt(delta.s), 1000), 1000),
           BigFromInt(delta.us))

\* timedelta.total_seconds(): the microseconds / 10**6
total_seconds(delta) == IntTrueDiv(TimedeltaMicroseconds(delta), MicrosPerSecond)

\* timedelta.total_seconds() / 3600
FloatHours(delta) == FloatDivInt(total_seconds(delta), 3600)

-----------------------------------------------------------------------------
(* calculate_business_hours, the float it returns *)

\* the while loop, total_hours being the float of the source
RECURSIVE FloatDayWalk(_, _, _)
FloatDayWalk(current, end, total) ==
    IF current.day < end.day
        THEN FloatDayWalk(NextMidnight(current), end,
                          IF IsBusinessDay(current)
                              THEN FloatAdd(total, FloatHours(HoursInDay(current)))
                              ELSE total)
        ELSE [current |-> current, total_hours |-> total]

\* the loop followed by the final partial day
FloatBusinessHoursWalk(start, end) ==
    LET w == FloatDayWalk(start, end, FloatZero)
    IN  IF FinalDayCounts(w.current, end)
            THEN FloatAdd(w.total_hours, FloatHours(DatetimeSub(end, w.current)))
            ELSE w.total_hours

\* calculate_business_hours(start_time, end_time), the float returned
calculate_business_hours_float(start, end) ==
    IF DatetimeGE(start, end) THEN FloatZero ELSE FloatBusinessHoursWalk(start, end)

-----------------------------------------------------------------------------
(* Timestamps on the wire and their parsing *)

\* A timestamp string of an API payload: its date, its time of day, its
\* fraction of a second when it carries one, and its zone suffix.  A string
\* no accepted pattern matches is not wellformed.
WireTime(d, t, withFraction) ==
    [wellformed |-> TRUE, date |-> d, sec |-> t.sec,
     frac |-> IF withFraction THEN Some(t.us) ELSE None, zone |-> "Z"]

MalformedTime ==
    [wellformed |-> FALSE, date |-> 0, sec |-> 0, frac |-> None, zone |-> ""]

\* parse_gitlab_datetime: the zone suffix is split off and dropped, then the
\* fractional pattern and the whole-second pattern are tried.  None stands for
\* the ValueError of the last strptime.
parse_gitlab_datetime(w) ==
    IF w.wellformed
        THEN Some([day |-> w.date, sec |-> w.sec,
                   us |-> IF w.frac = None THEN 0 ELSE w.frac[1]])
        ELSE None

\* datetime.strptime(s, '%Y-%m-%dT%H:%M:%SZ'): no fraction, a literal Z.
\* None stands for the exception (ValueError, or TypeError on a null).
parse_github_datetime(w) ==
    IF w.wellformed /\ w.frac = None /\ w.zone = "Z"
        THEN Some([day |-> w.date, sec |-> w.sec, us |-> 0])
        ELSE None

-----------------------------------------------------------------------------
(* Strings: a str is the sequence of its characters *)

UpperCase ==
    <<"A","B","C","D","E","F","G","H","I","J","K","L","M",
      "N","O","P","Q","R","S","T","U","V","W","X","Y","Z">>

LowerCase ==
    <<"a","b","c","d","e","f","g","h","i","j","k","l","m",
      "n","o","p","q","r","s","t","u","v","w","x","y","z">>

ToLower ==
    [c \in { UpperCase[i] : i \in 1..Len(UpperCase) } |->
        LowerCase[CHOOSE i \in 1..Len(UpperCase) : UpperCase[i] = c]]

LowerChar(c) == IF c \in DOMAIN ToLower THEN ToLower[c] ELSE c

\* str.lower()
StrLower(s) == [i \in 1..Len(s) |-> LowerChar(s[i])]

\* pat in s
StrContains(pat, s) ==
    \E i \in 0..(Len(s) - Len(pat)) : SubSeq(s, i + 1, i + Len(pat)) = pat

\* 'approved this merge request'
PatApproved ==
    <<"a","p","p","r","o","v","e","d"," ","t","h","i","s"," ","m","e","r",
      "g","e"," ","r","e","q","u","e","s","t">>

\* 'unapproved this merge request'
PatUnapproved ==
    <<"u","n","a","p","p","r","o","v","e","d"," ","t","h","i","s"," ","m",
      "e","r","g","e"," ","r","e","q","u","e","s","t">>

\* 'requested changes'
PatRequestedChanges ==
    <<"r","e","q","u","e","s","t","e","d"," ","c","h","a","n","g","e","s">>

\* 'rejected'
PatRejected ==
    <<"r","e","j","e","c","t","e","d">>

\* 'merged'
PatMerged ==
    <<"m","e","r","g","e","d">>

\* 'closed'
PatClosed ==
    <<"c","l","o","s","e","d">>

\* 'requested review'
PatRequestedReview ==
    <<"r","e","q","u","e","s","t","e","d"," ","r","e","v","i","e","w">>

\* 'removed review request'
PatRemovedReviewRequest ==
    <<"r","e","m","o","v","e","d"," ","r","e","v","i","e","w"," ","r","e",
      "q","u","e","s","t">>

\* '...'
Ellipsis ==
    <<".",".",".">>


-----------------------------------------------------------------------------
(* gitlab_mr_stats.get_first_review_time *)

\* note.get('body', '').lower()
NoteBody(note) == IF note.body = None THEN <<>> ELSE StrLower(note.body[1])

\* note.get('system', False)
NoteIsSystem(note) == IF note.system = None THEN FALSE ELSE note.system[1]

\* variant: the body of a system note is not looked at
IsReviewActivity_SystemNeverCounts(is_system, note_body) == ~is_system

\* is_review_activity
IsReviewActivity(is_system, note_body) ==
    \/ ~is_system
    \/ StrContains(PatApproved, note_body)
    \/ StrContains(PatUnapproved, note_body)
    \/ StrContains(PatRequestedChanges, note_body)
    \/ StrContains(PatRejected, note_body)
    \/ StrContains(PatMerged, note_body)
    \/ StrContains(PatClosed, note_body)

\* variant: no note is taken for a review request
IsReviewRequest_Never(note_body) == FALSE

\* is_review_request
IsReviewRequest(note_body) ==
    \/ StrContains(PatRequestedReview, note_body)
    \/ StrContains(PatRemovedReviewRequest, note_body)

\* note_body[:50] + '...' if len(note_body) > 50 else note_body
ActivityBody(body) ==
    IF Len(body) > 50 THEN SubSeq(body, 1, 50) \o Ellipsis ELSE body

\* the entry appended to review_activities for a note
NoteActivity(is_system, note_time, note_body) ==
    [type |-> IF is_system THEN "system_note" ELSE "comment",
     time |-> note_time,
     body |-> ActivityBody(note_body)]

\* The loop over notes, from the activities collected so far.  raised tells
\* that parse_gitlab_datetime raised; the loop stops there.
RECURSIVE NotesLoop(_, _)
NotesLoop(notes, acts) ==
    IF notes = <<>>
        THEN [raised |-> FALSE, review_activities |-> acts]
        ELSE LET note == Head(notes)
                 note_time == parse_gitlab_datetime(note.created_at)
                 note_body == NoteBody(note)
                 is_system == NoteIsSystem(note)
             IN  IF note_time = None
                     THEN [raised |-> TRUE, review_activities |-> acts]
                     ELSE NotesLoop(Tail(notes),
                              IF /\ IsReviewActivity(is_system, note_body)
                                 /\ ~IsReviewRequest(note_body)
                                  THEN Append(acts, NoteActivity(is_system, note_time[1],
                                                                 note_body))
                                  ELSE acts)

\* mr_data.get('merge_status') == 'can_be_merged' or
\* mr_data.get('detailed_merge_status') == 'mergeable'
IsMergeable(mr_data) ==
    \/ mr_data.merge_status = Some("can_be_merged")
    \/ mr_data.detailed_merge_status = Some("mergeable")

\* the entry appended to review_activities for an approval
ApprovalActivity(approval) ==
    [type |-> "approval",
     time |-> parse_gitlab_datetime(approval.created_at[1])[1],
     body |-> <<"approved by ", approval.name>>]

\* The loop over approved_by.  An exception inside it leaves the entries
\* appended before it in review_activities.
RECURSIVE ApprovalsLoop(_, _)
ApprovalsLoop(approved_by, acts) ==
    IF approved_by = <<>>
        THEN acts
        ELSE LET approval == Head(approved_by) IN
             IF approval.created_at = None
                 THEN ApprovalsLoop(Tail(approved_by), acts)
                 ELSE IF parse_gitlab_datetime(approval.created_at[1]) = None
                     THEN acts
                     ELSE ApprovalsLoop(Tail(approved_by),
                                        Append(acts, ApprovalActivity(approval)))

\* The approvals probe inside its own try / except: pass.
ApprovalsProbe(approvals_resp, acts) ==
    IF approvals_resp.status = "200"
        THEN ApprovalsLoop(approvals_resp.approved_by, acts)
        ELSE acts

\* list.sort(key=lambda x: x['time']): stable, ascending
RECURSIVE InsertByTime(_, _)
InsertByTime(x, sorted) ==
    IF sorted = <<>>
        THEN <<x>>
        ELSE IF DatetimeLT(x.time, Head(sorted).time)
            THEN <<x>> \o sorted
            ELSE <<Head(sorted)>> \o InsertByTime(x, Tail(sorted))

RECURSIVE SortByTimeFrom(_, _)
SortByTimeFrom(seq, sorted) ==
    IF seq = <<>>
        THEN sorted
        ELSE SortByTimeFrom(Tail(seq), InsertByTime(Head(seq), sorted))

\* variant: the list is left in arrival order
SortByTime_NotSorted(seq) == seq

\* review_activities.sort(key=lambda x: x['time'])
SortByTime(seq) == SortByTimeFrom(seq, <<>>)

\* What a call leaves: the list review_activities, the local
\* earliest_review_time and the value returned.
ReviewOutcome(acts, earliest, returned) ==
    [review_activities |-> acts, earliest_review_time |-> earliest,
     returned |-> returned]

\* from "if review_activities:" to the return
EarliestAndReturn(created_at, acts) ==
    IF acts # <<>>
        THEN LET sorted == SortByTime(acts) IN
             ReviewOutcome(sorted, Some(sorted[1].time),
                           Some(calculate_business_hours(created_at, sorted[1].time)))
        ELSE ReviewOutcome(acts, None, None)

\* get_first_review_time.  A response whose status is not "ok" raised in
\* requests.get or raise_for_status, or (status "unexpected_payload") answered
\* 200 with a payload that is not a list of objects, on which
\* note['created_at'] raises TypeError: the handlers take each of them.
gitlab_get_first_review_time(created_at, notes_resp, mr_resp, approvals_resp) ==
    IF notes_resp.status # "ok"
        THEN ReviewOutcome(<<>>, None, None)
        ELSE LET loop == NotesLoop(notes_resp.notes, <<>>) IN
             IF loop.raised \/ mr_resp.status # "ok"
                 THEN ReviewOutcome(loop.review_activities, None, None)
                 ELSE EarliestAndReturn(
                          created_at,
                          IF IsMergeable(mr_resp.mr_data)
                              THEN ApprovalsProbe(approvals_resp, loop.review_activities)
                              ELSE loop.review_activities)

-----------------------------------------------------------------------------
(* gitlab_mr_stats.get_review_comment_count *)

\* How a call ends: with the value it returns, or with the exception that
\* leaves it.
Returned(v) == [raised |-> None, value |-> Some(v)]
Raised(e) == [raised |-> Some(e), value |-> None]

\* len([note for note in notes if not note.get('system', False)])
RECURSIVE CountNonSystem(_)
CountNonSystem(notes) ==
    IF notes = <<>> THEN 0
    ELSE (IF NoteIsSystem(Head(notes)) THEN 0 ELSE 1) + CountNonSystem(Tail(notes))

\* get_review_comment_count: the handlers are those of HTTPError and of
\* RequestException, each followed by the return 0.  On a payload that is not
\* a list of objects note.get raises AttributeError, which no handler takes.
gitlab_get_review_comment_count(notes_resp) ==
    IF notes_resp.status = "ok"
        THEN Returned(CountNonSystem(notes_resp.notes))
        ELSE IF notes_resp.status = "unexpected_payload"
            THEN Raised("AttributeError")
            ELSE Returned(0)

\* get_first_review_time as a unit of work: every path of it returns
first_review_time_unit(created_at, resp) ==
    Returned(gitlab_get_first_review_time(created_at, resp.notes, resp.mr,
                                          resp.approvals).returned)

-----------------------------------------------------------------------------
(* pr_stats.get_first_review_time *)

\* variant: the comparison turned around
IsEarlier_Later(first_review_time, earliest) ==
    earliest = None \/ DatetimeLT(earliest[1], first_review_time)

\* earliest_review_time is None or first_review_time < earliest_review_time
IsEarlier(first_review_time, earliest) ==
    earliest = None \/ DatetimeLT(first_review_time, earliest[1])

\* from "if earliest_review_time:" to the return
GitHubReturn(created_at, earliest) ==
    IF earliest # None
        THEN ReviewOutcome(<<>>, earliest,
                           Some(calculate_business_hours(created_at, earliest[1])))
        ELSE ReviewOutcome(<<>>, None, None)

\* the item of a list response the code reads: comments[0], reviews[0]
FirstItem(items) == items[1]

github_get_first_review_time(created_at, comments_resp, reviews_resp) ==
    IF comments_resp.status # "ok"
        THEN ReviewOutcome(<<>>, None, None)
        ELSE
    LET comments == comments_resp.items
        first_comment_time ==
            IF comments # <<>> THEN parse_github_datetime(FirstItem(comments).created_at)
                               ELSE None
        raised1 == comments # <<>> /\ first_comment_time = None
    IN  IF raised1 \/ reviews_resp.status # "ok"
            THEN ReviewOutcome(<<>>, None, None)
            ELSE
    LET reviews == reviews_resp.items
        first_review_time ==
            IF reviews # <<>> THEN parse_github_datetime(FirstItem(reviews).submitted_at)
                              ELSE None
        raised2 == reviews # <<>> /\ first_review_time = None
    IN  IF raised2
            THEN ReviewOutcome(<<>>, None, None)
            ELSE GitHubReturn(
                     created_at,
                     IF reviews # <<>> /\ IsEarlier(first_review_time[1], first_comment_time)
                         THEN first_review_time
                         ELSE first_comment_time)

-----------------------------------------------------------------------------
(* The aggregation step of main *)

\* variant: a count of 0 taken for comments
HasComments_NonNegative(count) == count >= 0

\* has_comments = comment_counts[i] > 0
HasComments(count) == count > 0

\* variant: the truth value of the review time, so that 0 counts as None
HasReviews_Truthy(review_time) == review_time # None /\ review_time[1] # ZeroDelta

\* has_reviews = review_times[i] is not None
HasReviews(review_time) == review_time # None

\* variant: only requests with comments are kept
HasActivity_CommentsOnly(count, review_time) == HasComments(count)

\* if has_comments or has_reviews: request i goes to the three activity lists
HasActivity(count, review_time) == HasComments(count) \/ HasReviews(review_time)

\* the loop "for i, mr in enumerate(merge_requests)", from index i on
RECURSIVE ActivityLoop(_, _, _, _, _)
ActivityLoop(i, requests, counts, times, acc) ==
    IF i > Len(requests)
        THEN acc
        ELSE ActivityLoop(i + 1, requests, counts, times,
                 IF HasActivity(counts[i], times[i])
                     THEN [mrs_with_activity |->
                               Append(acc.mrs_with_activity, requests[i]),
                           activity_comment_counts |->
                               Append(acc.activity_comment_counts, counts[i]),
                           activity_review_times |->
                               Append(acc.activity_review_times, times[i])]
                     ELSE acc)

\* sum(), max() and min() of a list of integers
RECURSIVE SumInts(_)
SumInts(seq) == IF seq = <<>> THEN 0 ELSE Head(seq) + SumInts(Tail(seq))

MaxInts(seq) == CHOOSE x \in { seq[i] : i \in 1..Len(seq) } :
                    \A j \in 1..Len(seq) : seq[j] <= x

MinInts(seq) == CHOOSE x \in { seq[i] : i \in 1..Len(seq) } :
                    \A j \in 1..Len(seq) : seq[j] >= x

\* f'{avg:.1f}' of avg = num / den, as a number of tenths: the nearest tenth,
\* and the even one at a tie.  (A tie has the form k / 4, which a float holds
\* exactly, whenever den < 20.)
FormatOneDecimal(num, den) ==
    LET q == (10 * num) \div den
        r == (10 * num) % den
    IN  IF 2 * r < den THEN q
        ELSE IF 2 * r > den THEN q + 1
        ELSE IF q % 2 = 0 THEN q ELSE q + 1

\* comment_stats: None is the line 'No comments found on MRs'
CommentStats(counts) ==
    IF counts # <<>>
        THEN Some([avg_comments |-> [num |-> SumInts(counts), den |-> Len(counts)],
                   mean |-> FormatOneDecimal(SumInts(counts), Len(counts)),
                   max |-> MaxInts(counts),
                   min |-> MinInts(counts)])
        ELSE None

\* variant: a None review time kept as 0
RECURSIVE ValidReviewTimes_All(_)
ValidReviewTimes_All(times) ==
    IF times = <<>> THEN <<>>
    ELSE <<IF Head(times) = None THEN ZeroDelta ELSE Head(times)[1]>>
             \o ValidReviewTimes_All(Tail(times))

\* valid_activity_review_times = [rt for rt in activity_review_times if rt is not None]
RECURSIVE ValidReviewTimes(_)
ValidReviewTimes(times) ==
    IF times = <<>> THEN <<>>
    ELSE IF Head(times) # None
        THEN <<Head(times)[1]>> \o ValidReviewTimes(Tail(times))
        ELSE ValidReviewTimes(Tail(times))

\* sum() of a list of hours
RECURSIVE SumDeltas(_)
SumDeltas(seq) ==
    IF seq = <<>> THEN ZeroDelta ELSE DeltaAdd(Head(seq), SumDeltas(Tail(seq)))

\* review_stats: None is the line 'No reviews found on any MRs'; otherwise
\* avg_review_time, the quotient sum / n kept as the pair.  Its rendering to
\* one decimal depends on the float nearest to the quotient and is not
\* modelled.
ReviewStats(times) ==
    LET valid_activity_review_times == ValidReviewTimes(times)
    IN  IF valid_activity_review_times # <<>>
            THEN Some([sum |-> SumDeltas(valid_activity_review_times),
                       n |-> Len(valid_activity_review_times)])
            ELSE None

\* main from "mrs_with_activity = []" to the print
Aggregation(requests, counts, times) ==
    LET acc == ActivityLoop(1, requests, counts, times,
                            [mrs_with_activity |-> <<>>,
                             activity_comment_counts |-> <<>>,
                             activity_review_times |-> <<>>])
    IN  [mrs_with_activity |-> acc.mrs_with_activity,
         activity_comment_counts |-> acc.activity_comment_counts,
         activity_review_times |-> acc.activity_review_times,
         report |-> [with_activity |-> Len(acc.mrs_with_activity),
                     comment_stats |-> CommentStats(acc.activity_comment_counts),
                     review_stats |-> ReviewStats(acc.activity_review_times)]]

-----------------------------------------------------------------------------
(* Input sets *)

Midnight == [sec |-> 0, us |-> 0]
NineOClock == [sec |-> 9 * 3600, us |-> 0]
FiveOClock == [sec |-> 17 * 3600, us |-> 0]
HalfPastFive == [sec |-> 17 * 3600 + 1800, us |-> 500000]
LastMicrosecond == [sec |-> SecondsPerDay - 1, us |-> MicrosPerSecond - 1]

TimesOfDay ==
    { Midnight, [sec |-> 0, us |-> 1], NineOClock, HalfPastFive, LastMicrosecond }

At(d, t) == [day |-> d, sec |-> t.sec, us |-> t.us]

Instants == { At(d, t) : d \in 0..MaxDay, t \in TimesOfDay }

\* the instants of the calls that are split: a Monday to the next Monday
SplitInstants == { At(d, t) : d \in 0..MaxSplitDay, t \in TimesOfDay }

\* all sequences of at most n elements of S
SeqsUpTo(S, n) == UNION { [1..k -> S] : k \in 0..n }

\* creation instants of a request: the first Monday 09:00, the first Friday 17:00
CreatedTimes == { At(0, NineOClock), At(4, FiveOClock) }

\* timestamps of notes: Tuesday 09:00, Friday 17:00 (written with a fraction),
\* the next Monday 09:00
NoteTimes ==
    { WireTime(1, NineOClock, FALSE), WireTime(4, FiveOClock, TRUE),
      WireTime(7, NineOClock, FALSE) }

\* timestamps of approvals: the first Monday 17:00, the next Monday 09:00
ApprovalTimes == { WireTime(0, FiveOClock, FALSE), WireTime(7, NineOClock, TRUE) }

\* timestamps of GitHub review comments and reviews
GitHubTimes ==
    { WireTime(1, NineOClock, FALSE), WireTime(4, FiveOClock, FALSE),
      WireTime(7, NineOClock, FALSE) }

\* 'LGTM, nice work'
BodyLgtm ==
    <<"L","G","T","M",","," ","n","i","c","e"," ","w","o","r","k">>

\* 'unrelated status change'
BodyUnrelated ==
    <<"u","n","r","e","l","a","t","e","d"," ","s","t","a","t","u","s"," ",
      "c","h","a","n","g","e">>

\* 'requested review from @bob'
BodyRequestedReview ==
    <<"r","e","q","u","e","s","t","e","d"," ","r","e","v","i","e","w"," ",
      "f","r","o","m"," ","@","b","o","b">>

\* 'removed review request for @bob'
BodyRemovedReviewRequest ==
    <<"r","e","m","o","v","e","d"," ","r","e","v","i","e","w"," ","r","e",
      "q","u","e","s","t"," ","f","o","r"," ","@","b","o","b">>

\* 'Approved This Merge Request'
BodyApprovedUpper ==
    <<"A","p","p","r","o","v","e","d"," ","T","h","i","s"," ","M","e","r",
      "g","e"," ","R","e","q","u","e","s","t">>

\* 'Requested Review from @bob'
BodyRequestedReviewUpper ==
    <<"R","e","q","u","e","s","t","e","d"," ","R","e","v","i","e","w"," ",
      "f","r","o","m"," ","@","b","o","b">>

\* 'Please hold this one back until the tracking issue is closed'  (60 characters)
BodyLongComment ==
    <<"P","l","e","a","s","e"," ","h","o","l","d"," ","t","h","i","s"," ",
      "o","n","e"," ","b","a","c","k"," ","u","n","t","i","l"," ","t","h",
      "e"," ","t","r","a","c","k","i","n","g"," ","i","s","s","u","e"," ",
      "i","s"," ","c","l","o","s","e","d">>

\* 'approved this merge request and requested review from @bob'  (58 characters)
BodyApprovedAndRequested ==
    <<"a","p","p","r","o","v","e","d"," ","t","h","i","s"," ","m","e","r",
      "g","e"," ","r","e","q","u","e","s","t"," ","a","n","d"," ","r","e",
      "q","u","e","s","t","e","d"," ","r","e","v","i","e","w"," ","f","r",
      "o","m"," ","@","b","o","b">>


\* bodies of notes; None is a note without a body
NoteBodies ==
    { Some(b) : b \in { PatApproved, PatUnapproved, PatRequestedChanges,
                        PatRejected, PatMerged, PatClosed,
                        BodyLgtm, BodyUnrelated, BodyRequestedReview,
                        BodyRemovedReviewRequest, BodyApprovedUpper,
                        BodyRequestedReviewUpper, BodyLongComment,
                        BodyApprovedAndRequested } }
    \cup { None }

\* system flags of notes; None is a note without the key
SystemFlags == { Some(TRUE), Some(FALSE), None }

\* notes of every body and flag, at one instant
ClassifierNotes ==
    [created_at : { WireTime(7, NineOClock, FALSE) },
     body : NoteBodies, system : SystemFlags]

\* a comment, a system note that counts and a system note that is a review
\* request, at every instant of NoteTimes
ReviewNotes ==
    { [created_at |-> t, body |-> Some(k.body), system |-> k.system] :
        t \in NoteTimes,
        k \in { [body |-> BodyLgtm, system |-> None],
                [body |-> PatMerged, system |-> Some(TRUE)],
                [body |-> PatRequestedReview, system |-> Some(TRUE)] } }

MrDataNotMergeable ==
    [merge_status |-> Some("cannot_be_merged"), detailed_merge_status |-> Some("checking")]

MrDataMergeable ==
    { [merge_status |-> Some("can_be_merged"), detailed_merge_status |-> None],
      [merge_status |-> Some("unchecked"), detailed_merge_status |-> Some("mergeable")] }

\* records of approved_by: without created_at, with one no pattern matches, or
\* with one of ApprovalTimes
Approvals ==
    [created_at : { None, Some(MalformedTime) } \cup { Some(t) : t \in ApprovalTimes },
     name : { "unknown" }]

\* what the approvals request can answer: a status other than 200, an
\* exception of requests.get, or 200 with a list of approval records
ApprovalsResponses ==
    { [status |-> "404", approved_by |-> <<>>],
      [status |-> "raises", approved_by |-> <<>>] }
    \cup [status : { "200" }, approved_by : SeqsUpTo(Approvals, MaxApprovals)]

\* a request that is never sent has no response
NotRequested == [status |-> "not_requested"]

FailureStatuses == { "http_error", "network_error" }

\* requests of the aggregation step
Requests(n) == [i \in 1..n |-> [iid |-> i, created_at |-> At(0, NineOClock)]]

CommentCounts == { 0, 1, 5 }

ReviewTimes == { None, Some(ZeroDelta), Some(Hours(2)), Some(Hours(3)) }

\* a response of status 200 whose JSON body is not a list of objects, such as
\* {"message": "..."}: iterating it yields strings
UnexpectedPayload == [status |-> "unexpected_payload"]

\* notes of the requests the pool works on: a comment on Tuesday 09:00 and a
\* system note
PoolComment ==
    [created_at |-> WireTime(1, NineOClock, FALSE), body |-> Some(BodyLgtm),
     system |-> None]

PoolSystemNote ==
    [created_at |-> WireTime(1, NineOClock, FALSE), body |-> Some(PatMerged),
     system |-> Some(TRUE)]

\* what GET .../notes answers to get_review_comment_count
PoolNotesResponses ==
    { [status |-> "http_error"],
      [status |-> "network_error"],
      UnexpectedPayload,
      [status |-> "ok", notes |-> <<>>],
      [status |-> "ok", notes |-> <<PoolSystemNote, PoolComment>>] }

\* what the three requests of get_first_review_time are answered
PoolReviewResponses ==
    { [notes |-> [status |-> "http_error"], mr |-> NotRequested,
       approvals |-> NotRequested],
      [notes |-> UnexpectedPayload, mr |-> NotRequested,
       approvals |-> NotRequested],
      [notes |-> [status |-> "ok", notes |-> <<PoolComment>>],
       mr |-> [status |-> "ok", mr_data |-> MrDataNotMergeable],
       approvals |-> NotRequested],
      [notes |-> [status |-> "ok", notes |-> <<PoolComment>>],
       mr |-> [status |-> "network_error"],
       approvals |-> NotRequested],
      [notes |-> [status |-> "ok", notes |-> <<>>],
       mr |-> [status |-> "ok",
               mr_data |-> [merge_status |-> Some("can_be_merged"),
                            detailed_merge_status |-> None]],
       approvals |-> [status |-> "200",
                      approved_by |-> <<[created_at |-> Some(WireTime(0, FiveOClock, FALSE)),
                                         name |-> "unknown"]>>]] }

-----------------------------------------------------------------------------
(* Specifications *)

BusinessHoursIdle ==
    /\ start_time = None
    /\ end_time = None
    /\ total_hours = None
    /\ split_time = None
    /\ float_hours = None

ServerIdle ==
    /\ notes_response = NotRequested
    /\ mr_response = NotRequested
    /\ approvals_response = NotRequested
    /\ comments_response = NotRequested
    /\ reviews_response = NotRequested

ReviewIdle ==
    /\ mr_created_at = None
    /\ review_activities = None
    /\ earliest_review_time = None
    /\ returned_hours = None

MainIdle ==
    /\ merge_requests = <<>>
    /\ comment_counts = <<>>
    /\ review_times = <<>>
    /\ mrs_with_activity = <<>>
    /\ activity_comment_counts = <<>>
    /\ activity_review_times = <<>>
    /\ report = None

PoolIdle ==
    /\ comment_workers = <<>>
    /\ review_time_workers = <<>>
    /\ work_queue = <<>>
    /\ collected = <<>>
    /\ uncaught = None

(* calculate_business_hours on its own: the two arguments are drawn from   *)
(* the calendar, the call is one step.                                     *)

InitBusinessHours ==
    /\ pc = "call"
    /\ start_time \in Instants
    /\ end_time \in Instants
    /\ total_hours = None
    /\ split_time = None
    /\ float_hours = None
    /\ ServerIdle /\ ReviewIdle /\ MainIdle /\ PoolIdle

CalculateBusinessHours ==
    /\ pc = "call"
    /\ total_hours' = Some(calculate_business_hours(start_time, end_time))
    /\ pc' = "return"
    /\ UNCHANGED <<start_time, end_time, split_time, float_hours, serverVars,
                   reviewVars, inputVars, aggVars, poolVars>>

NextBusinessHours == CalculateBusinessHours

SpecBusinessHours == InitBusinessHours /\ [][NextBusinessHours]_vars

(* calculate_business_hours over an interval and over its two parts: the   *)
(* three calls are one step.                                               *)

InitSplit ==
    /\ pc = "call"
    /\ start_time \in SplitInstants
    /\ split_time \in { b \in SplitInstants : DatetimeGE(b, start_time) }
    /\ end_time \in { c \in SplitInstants : DatetimeGE(c, split_time) }
    /\ total_hours = None
    /\ float_hours = None
    /\ ServerIdle /\ ReviewIdle /\ MainIdle /\ PoolIdle

CalculateSplit ==
    /\ pc = "call"
    /\ total_hours' = Some(calculate_business_hours(start_time, end_time))
    /\ float_hours' =
           Some([whole |-> calculate_business_hours_float(start_time, end_time),
                 first |-> calculate_business_hours_float(start_time, split_time),
                 second |-> calculate_business_hours_float(split_time, end_time)])
    /\ pc' = "return"
    /\ UNCHANGED <<start_time, end_time, split_time, serverVars, reviewVars,
                   inputVars, aggVars, poolVars>>

NextSplit == CalculateSplit

SpecSplit == InitSplit /\ [][NextSplit]_vars

(* gitlab_mr_stats.get_first_review_time on its own: the call is one step  *)
(* over the responses the server gives.                                    *)

GitLabGetFirstReviewTime ==
    /\ pc = "call"
    /\ \E out \in { gitlab_get_first_review_time(mr_created_at, notes_response,
                                                 mr_response, approvals_response) } :
           /\ review_activities' = out.review_activities
           /\ earliest_review_time' = out.earliest_review_time
           /\ returned_hours' = out.returned
    /\ pc' = "return"
    /\ UNCHANGED <<mr_created_at, bhVars, serverVars, inputVars, aggVars, poolVars>>

NextGitLab == GitLabGetFirstReviewTime

ReviewFrameAtCall ==
    /\ pc = "call"
    /\ review_activities = None
    /\ earliest_review_time = None
    /\ returned_hours = None
    /\ comments_response = NotRequested
    /\ reviews_response = NotRequested
    /\ BusinessHoursIdle /\ MainIdle /\ PoolIdle

\* The classifier: notes of every body and system flag; the request is not
\* mergeable, so approvals are not asked for.
InitClassifier ==
    /\ ReviewFrameAtCall
    /\ mr_created_at = At(4, FiveOClock)
    /\ notes_response \in [status : { "ok" }, notes : SeqsUpTo(ClassifierNotes, MaxNotes)]
    /\ mr_response = [status |-> "ok", mr_data |-> MrDataNotMergeable]
    /\ approvals_response = NotRequested

SpecClassifier == InitClassifier /\ [][NextGitLab]_vars

\* The whole function: each response is drawn only when its request is sent.
InitGitLabReview ==
    /\ ReviewFrameAtCall
    /\ mr_created_at \in CreatedTimes
    /\ \/ /\ notes_response \in [status : FailureStatuses]
          /\ mr_response = NotRequested
          /\ approvals_response = NotRequested
       \/ /\ notes_response \in [status : { "ok" }, notes : SeqsUpTo(ReviewNotes, MaxNotes)]
          /\ \/ /\ mr_response \in [status : FailureStatuses]
                /\ approvals_response = NotRequested
             \/ /\ mr_response = [status |-> "ok", mr_data |-> MrDataNotMergeable]
                /\ approvals_response = NotRequested
             \/ /\ mr_response \in [status : { "ok" }, mr_data : MrDataMergeable]
                /\ approvals_response \in ApprovalsResponses

SpecGitLabReview == InitGitLabReview /\ [][NextGitLab]_vars

(* pr_stats.get_first_review_time on its own *)

GitHubGetFirstReviewTime ==
    /\ pc = "call"
    /\ \E out \in { github_get_first_review_time(mr_created_at, comments_response,
                                                 reviews_response) } :
           /\ review_activities' = out.review_activities
           /\ earliest_review_time' = out.earliest_review_time
           /\ returned_hours' = out.returned
    /\ pc' = "return"
    /\ UNCHANGED <<mr_created_at, bhVars, serverVars, inputVars, aggVars, poolVars>>

NextGitHub == GitHubGetFirstReviewTime

GitHubComments == [created_at : GitHubTimes]

\* a review that is still pending carries no submitted_at
GitHubReviews == [submitted_at : GitHubTimes \cup { MalformedTime }]

InitGitHubReview ==
    /\ pc = "call"
    /\ review_activities = None
    /\ earliest_review_time = None
    /\ returned_hours = None
    /\ notes_response = NotRequested
    /\ mr_response = NotRequested
    /\ approvals_response = NotRequested
    /\ BusinessHoursIdle /\ MainIdle /\ PoolIdle
    /\ mr_created_at \in CreatedTimes
    /\ \/ /\ comments_response \in [status : FailureStatuses]
          /\ reviews_response = NotRequested
       \/ /\ comments_response \in
                 [status : { "ok" }, items : SeqsUpTo(GitHubComments, MaxItems)]
          /\ \/ reviews_response \in [status : FailureStatuses]
             \/ reviews_response \in
                    [status : { "ok" }, items : SeqsUpTo(GitHubReviews, MaxItems)]

SpecGitHubReview == InitGitHubReview /\ [][NextGitHub]_vars

(* The aggregation step of main on its own: it starts when the pool has    *)
(* filled comment_counts and review_times.                                 *)

InitAggregate ==
    /\ pc = "pooled"
    /\ \E n \in 1..MaxRequests :
          /\ merge_requests = Requests(n)
          /\ comment_counts \in [1..n -> CommentCounts]
          /\ review_times \in [1..n -> ReviewTimes]
    /\ mrs_with_activity = <<>>
    /\ activity_comment_counts = <<>>
    /\ activity_review_times = <<>>
    /\ report = None
    /\ BusinessHoursIdle /\ ServerIdle /\ ReviewIdle /\ PoolIdle

Aggregate ==
    /\ pc = "pooled"
    /\ \E out \in { Aggregation(merge_requests, comment_counts, review_times) } :
           /\ mrs_with_activity' = out.mrs_with_activity
           /\ activity_comment_counts' = out.activity_comment_counts
           /\ activity_review_times' = out.activity_review_times
           /\ report' = Some(out.report)
    /\ pc' = "reported"
    /\ UNCHANGED <<bhVars, serverVars, reviewVars, inputVars, poolVars>>

NextAggregate == Aggregate

SpecAggregate == InitAggregate /\ [][NextAggregate]_vars

(* main from the fetched requests on.  executor.submit puts a work item in  *)
(* the executor's queue and returns its future; a thread of the pool takes  *)
(* the item at the head of the queue, runs the unit of work and sets the    *)
(* future's result or exception; worker.result() waits for that future and  *)
(* returns its result or raises its exception; leaving the with block       *)
(* waits for every work item (shutdown(wait=True)).                         *)

\* the future executor.submit returns
NewFuture == [state |-> "pending", responses |-> None, outcome |-> None]

\* the future of a work item whose unit of work ended
FinishedFuture(resp, out) ==
    [state |-> "finished", responses |-> Some(resp), outcome |-> Some(out)]

Futures == comment_workers \o review_time_workers

NumRunning == Cardinality({ t \in 1..Len(Futures) : Futures[t].state = "running" })

AllFinished == \A t \in 1..Len(Futures) : Futures[t].state = "finished"

Init ==
    /\ pc = "fetched"
    /\ merge_requests \in { Requests(n) : n \in 0..MaxPoolRequests }
    /\ comment_counts = <<>>
    /\ review_times = <<>>
    /\ mrs_with_activity = <<>>
    /\ activity_comment_counts = <<>>
    /\ activity_review_times = <<>>
    /\ report = None
    /\ PoolIdle
    /\ BusinessHoursIdle /\ ServerIdle /\ ReviewIdle

\* if not merge_requests: print, return
ReturnNoRequests ==
    /\ pc = "fetched"
    /\ merge_requests = <<>>
    /\ pc' = "returned"
    /\ UNCHANGED <<bhVars, serverVars, reviewVars, inputVars, aggVars, poolVars>>

\* with ThreadPoolExecutor(max_workers=10) as executor
EnterPool ==
    /\ pc = "fetched"
    /\ merge_requests # <<>>
    /\ pc' = "submit_comment_workers"
    /\ UNCHANGED <<bhVars, serverVars, reviewVars, inputVars, aggVars, poolVars>>

\* executor.submit(get_review_comment_count, ..., mr['iid'], ...) for the
\* next request
SubmitCommentWorker ==
    /\ pc = "submit_comment_workers"
    /\ LET i == Len(comment_workers) + 1 IN
        /\ comment_workers' = Append(comment_workers, NewFuture)
        /\ work_queue' = Append(work_queue, [fn |-> "get_review_comment_count", i |-> i])
        /\ pc' = IF i = Len(merge_requests) THEN "submit_review_time_workers" ELSE pc
    /\ UNCHANGED <<bhVars, serverVars, reviewVars, inputVars, aggVars,
                   review_time_workers, collected, uncaught>>

\* executor.submit(get_first_review_time, ..., mr['iid'], mr['created_at'], ...)
\* for the next request
SubmitReviewTimeWorker ==
    /\ pc = "submit_review_time_workers"
    /\ LET i == Len(review_time_workers) + 1 IN
        /\ review_time_workers' = Append(review_time_workers, NewFuture)
        /\ work_queue' = Append(work_queue, [fn |-> "get_first_review_time", i |-> i])
        /\ pc' = IF i = Len(merge_requests) THEN "collect_comment_counts" ELSE pc
    /\ UNCHANGED <<bhVars, serverVars, reviewVars, inputVars, aggVars,
                   comment_workers, collected, uncaught>>

\* a thread of the pool takes the work item at the head of the queue
WorkerTake ==
    /\ work_queue # <<>>
    /\ NumRunning < MaxWorkers
    /\ LET item == Head(work_queue) IN
        IF item.fn = "get_review_comment_count"
            THEN /\ comment_workers' =
                        [comment_workers EXCEPT ![item.i].state = "running"]
                 /\ UNCHANGED review_time_workers
            ELSE /\ review_time_workers' =
                        [review_time_workers EXCEPT ![item.i].state = "running"]
                 /\ UNCHANGED comment_workers
    /\ work_queue' = Tail(work_queue)
    /\ UNCHANGED <<pc, bhVars, serverVars, reviewVars, inputVars, aggVars,
                   collected, uncaught>>

\* a thread runs get_review_comment_count for request i to its end
RunCommentWorker(i) ==
    /\ comment_workers[i].state = "running"
    /\ \E resp \in PoolNotesResponses :
           comment_workers' =
               [comment_workers EXCEPT
                    ![i] = FinishedFuture(resp, gitlab_get_review_comment_count(resp))]
    /\ UNCHANGED <<pc, bhVars, serverVars, reviewVars, inputVars, aggVars,
                   review_time_workers, work_queue, collected, uncaught>>

\* a thread runs get_first_review_time for request i to its end
RunReviewTimeWorker(i) ==
    /\ review_time_workers[i].state = "running"
    /\ \E resp \in PoolReviewResponses :
           review_time_workers' =
               [review_time_workers EXCEPT
                    ![i] = FinishedFuture(resp,
                               first_review_time_unit(merge_requests[i].created_at, resp))]
    /\ UNCHANGED <<pc, bhVars, serverVars, reviewVars, inputVars, aggVars,
                   comment_workers, work_queue, collected, uncaught>>

\* comment_counts.extend([worker.result() for worker in comment_workers]):
\* the next worker.result(), and the extend after the last one
ResultCommentWorker ==
    /\ pc = "collect_comment_counts"
    /\ LET i == Len(collected) + 1
           worker == comment_workers[i]
       IN  /\ worker.state = "finished"
           /\ IF worker.outcome[1].raised # None
                  THEN /\ uncaught' = worker.outcome[1].raised
                       /\ pc' = "leave_pool"
                       /\ UNCHANGED <<collected, comment_counts>>
                  ELSE IF i = Len(comment_workers)
                      THEN /\ comment_counts' =
                                  comment_counts \o Append(collected, worker.outcome[1].value[1])
                           /\ collected' = <<>>
                           /\ pc' = "collect_review_times"
                           /\ UNCHANGED uncaught
                      ELSE /\ collected' = Append(collected, worker.outcome[1].value[1])
                           /\ UNCHANGED <<pc, comment_counts, uncaught>>
    /\ UNCHANGED <<bhVars, serverVars, reviewVars, merge_requests, review_times,
                   aggVars, comment_workers, review_time_workers, work_queue>>

\* review_times.extend([worker.result() for worker in review_time_workers])
ResultReviewTimeWorker ==
    /\ pc = "collect_review_times"
    /\ LET i == Len(collected) + 1
           worker == review_time_workers[i]
       IN  /\ worker.state = "finished"
           /\ IF worker.outcome[1].raised # None
                  THEN /\ uncaught' = worker.outcome[1].raised
                       /\ pc' = "leave_pool"
                       /\ UNCHANGED <<collected, review_times>>
                  ELSE IF i = Len(review_time_workers)
                      THEN /\ review_times' =
                                  review_times \o Append(collected, worker.outcome[1].value[1])
                           /\ collected' = <<>>
                           /\ pc' = "leave_pool"
                           /\ UNCHANGED uncaught
                      ELSE /\ collected' = Append(collected, worker.outcome[1].value[1])
                           /\ UNCHANGED <<pc, review_times, uncaught>>
    /\ UNCHANGED <<bhVars, serverVars, reviewVars, merge_requests, comment_counts,
                   aggVars, comment_workers, review_time_workers, work_queue>>

\* the end of the with block: shutdown(wait=True), then the statement after
\* the block, or the exception on its way out of main
LeavePool ==
    /\ pc = "leave_pool"
    /\ AllFinished
    /\ pc' = IF uncaught = None THEN "pooled" ELSE "terminated"
    /\ UNCHANGED <<bhVars, serverVars, reviewVars, inputVars, aggVars, poolVars>>

Next ==
    \/ ReturnNoRequests
    \/ EnterPool
    \/ SubmitCommentWorker
    \/ SubmitReviewTimeWorker
    \/ WorkerTake
    \/ \E i \in 1..Len(comment_workers) : RunCommentWorker(i)
    \/ \E i \in 1..Len(review_time_workers) : RunReviewTimeWorker(i)
    \/ ResultCommentWorker
    \/ ResultReviewTimeWorker
    \/ LeavePool
    \/ Aggregate

Spec == Init /\ [][Next]_vars

-----------------------------------------------------------------------------
(* Claims: calculate_business_hours (SpecBusinessHours) *)

\* C1: for every start instant s on a Monday to Thursday,
\* calculate_business_hours(s, s + 24h) is exactly 24 hours; in particular
\* (Mon 00:00, Tue 00:00) and (Mon 09:00, Tue 09:00) give 24.0.
C1_FullDayIs24Hours ==
    (pc = "return" /\ Weekday(start_time) <= 3 /\ end_time = PlusOneDay(start_time))
        => total_hours = Some(Hours(24))

\* C9: whenever start >= end (equal, or start later than end), on a weekend
\* or not, calculate_business_hours returns 0.
C9_BackwardsIsZero ==
    (pc = "return" /\ DatetimeGE(start_time, end_time))
        => total_hours = Some(ZeroDelta)

\* C9 witness: a call has returned for a start on a Sunday that is later than
\* its end, a Saturday.
C9_Witness ==
    /\ pc = "return"
    /\ Weekday(start_time) = 6
    /\ Weekday(end_time) = 5
    /\ start_time.day > end_time.day

\* C10: for every Friday instant f and every instant m of the following
\* Monday, calculate_business_hours(f, m) is calculate_business_hours(f,
\* Friday 23:59:59.999999) plus calculate_business_hours(Monday 00:00, m): the
\* Saturday and the Sunday between them add nothing.
C10_WeekendAddsNothing ==
    (/\ pc = "return"
     /\ Weekday(start_time) = 4
     /\ end_time.day = start_time.day + 3)
        => total_hours =
               Some(DeltaAdd(
                   calculate_business_hours(start_time, At(start_time.day, LastMicrosecond)),
                   calculate_business_hours(At(end_time.day, Midnight), end_time)))

\* C10 witness: a call has returned for Friday 17:30:00.5 to the following
\* Monday 09:00, with the 6.5 hours left of Friday (less a microsecond) and the
\* 9 hours of Monday.
C10_Witness ==
    /\ pc = "return"
    /\ start_time = At(4, HalfPastFive)
    /\ end_time = At(7, NineOClock)
    /\ total_hours = Some([s |-> 6 * 3600 + 1799 + 9 * 3600, us |-> 499999])

-----------------------------------------------------------------------------
(* Claims: calculate_business_hours over a split interval (SpecSplit) *)

\* the float of calculate_business_hours(a, b) + calculate_business_hours(b, c)
ClaimSumOfParts == FloatAdd(float_hours[1].first, float_hours[1].second)

\* the float (c - a).total_seconds() / 3600 of the raw elapsed time
ClaimElapsed == FloatHours(DatetimeSub(end_time, start_time))

\* what the claim derives from additivity: the result does not exceed the
\* raw elapsed time and does not decrease with the end instant (a float of
\* the model is never negative)
ClaimConsequences ==
    /\ FloatLE(float_hours[1].whole, ClaimElapsed)
    /\ FloatLE(float_hours[1].first, float_hours[1].whole)

\* C15 as stated: for all instants a <= b <= c,
\* calculate_business_hours(a, c) = calculate_business_hours(a, b) +
\* calculate_business_hours(b, c), also when b lies on a weekend, at midnight
\* or at 23:59:59.999999; the result never exceeds the raw elapsed time and
\* does not decrease with the end instant.
C15_AdditiveOverSplit ==
    pc = "return" =>
        /\ float_hours[1].whole = ClaimSumOfParts
        /\ ClaimConsequences

\* the float x is the amount of time delta, in hours, to a relative error
\* of 2^-40: | x * 3600 * 10^6 - microseconds | <= microseconds * 2^-40
ClaimFloatIsAmount(x, delta) ==
    LET micros == TimedeltaMicroseconds(delta) IN
    IF micros = <<>> THEN x = FloatZero
    ELSE /\ x.m # <<>>
         /\ LET scaled == BigMulSmall(BigMulSmall(BigMulSmall(BigMulSmall(
                               x.m, 900), 4), 1000), 1000)
                distance == BigDistance(scaled, BigShiftLeft(micros, 0 - x.e))
            IN  ~BigLess(BigShiftLeft(micros, 0 - x.e - 40), distance)

\* the amounts of business time of the two parts add up to that of the whole
ClaimAmountsAdditive ==
    total_hours = Some(DeltaAdd(calculate_business_hours(start_time, split_time),
                                calculate_business_hours(split_time, end_time)))

\* C15 as amended: the amount of business time, in whole microseconds, is
\* additive over the split point; the float returned for (a, c) and the float
\* sum of those returned for (a, b) and (b, c) are both that amount in hours
\* up to rounding (a relative error of 2^-40), without being the same float;
\* the result never exceeds the raw elapsed time and does not decrease with
\* the end instant.
C15_AdditiveUpToRounding ==
    pc = "return" =>
        /\ ClaimAmountsAdditive
        /\ total_hours[1].s >= 0
        /\ ClaimFloatIsAmount(float_hours[1].whole, total_hours[1])
        /\ ClaimFloatIsAmount(ClaimSumOfParts, total_hours[1])
        /\ ClaimConsequences

\* C15 witness: the calls have returned for Monday 17:30:00.5 to the next
\* Monday 09:00, split at the midnight that begins Tuesday; the amount is
\* 111 h 29 min 59.499995 s and the float of the whole is not the float sum
\* of the parts.
C15_Witness ==
    /\ pc = "return"
    /\ start_time = At(0, HalfPastFive)
    /\ split_time = At(1, Midnight)
    /\ end_time = At(7, NineOClock)
    /\ total_hours = Some([s |-> 111 * 3600 + 29 * 60 + 59, us |-> 499995])
    /\ float_hours[1].whole # ClaimSumOfParts

-----------------------------------------------------------------------------
(* Claims: the GitLab review classifier (SpecClassifier) *)

NotesOf(resp) == resp.notes

\* the lowercased body of a note, '' when it has none
ClaimBody(note) == IF note.body = None THEN <<>> ELSE StrLower(note.body[1])

ClaimNonSystem(note) == note.system = None \/ note.system = Some(FALSE)

ClaimNamesReviewOutcome(note) ==
    \E pat \in { PatApproved, PatUnapproved, PatRequestedChanges, PatRejected,
                 PatMerged, PatClosed } : StrContains(pat, ClaimBody(note))

ClaimIsReviewRequest(note) ==
    \/ StrContains(PatRequestedReview, ClaimBody(note))
    \/ StrContains(PatRemovedReviewRequest, ClaimBody(note))

ClaimCandidate(note) ==
    (ClaimNonSystem(note) \/ ClaimNamesReviewOutcome(note)) /\ ~ClaimIsReviewRequest(note)

ClaimAnyNonSystem(note) == ClaimNonSystem(note)

ClaimNonSystemNoRequest(note) == ClaimNonSystem(note) /\ ~ClaimIsReviewRequest(note)

IsCommentActivity(activity) == activity.type = "comment"

\* the body an activity keeps of a note: the first 50 characters of the
\* lowercased body, and an ellipsis when it is longer
ClaimKeptBody(note) ==
    IF Len(ClaimBody(note)) > 50
        THEN SubSeq(ClaimBody(note), 1, 50) \o Ellipsis
        ELSE ClaimBody(note)

\* C3: a note becomes a review candidate if and only if (its system flag is
\* false or absent, or its lowercased body contains one of the six outcome
\* phrases) and its lowercased body contains neither 'requested review' nor
\* 'removed review request': the candidates are exactly those notes, in the
\* order of the response.
C3_CandidateIff ==
    pc = "return" =>
        LET claimed == SelectSeq(NotesOf(notes_response), ClaimCandidate)
        IN  /\ Len(review_activities) = Len(claimed)
            /\ \A k \in 1..Len(claimed) :
                  /\ review_activities[k].body = ClaimKeptBody(claimed[k])
                  /\ review_activities[k].type =
                         IF ClaimNonSystem(claimed[k]) THEN "comment" ELSE "system_note"

\* C3 witness: the response held a system note 'approved this merge request'
\* and a system note 'unrelated status change', and the first alone became a
\* candidate.
C3_Witness ==
    /\ pc = "return"
    /\ Len(NotesOf(notes_response)) = 2
    /\ NotesOf(notes_response)[1].system = Some(TRUE)
    /\ NotesOf(notes_response)[1].body = Some(PatApproved)
    /\ NotesOf(notes_response)[2].system = Some(TRUE)
    /\ NotesOf(notes_response)[2].body = Some(BodyUnrelated)
    /\ Len(review_activities) = 1
    /\ review_activities[1].body = PatApproved

\* C4 as stated: every non-system note is among the candidates, whatever its
\* body: the comment candidates are as many as the non-system notes.
C4_NonSystemAlwaysIncluded ==
    pc = "return" =>
        Len(SelectSeq(review_activities, IsCommentActivity))
            = Len(SelectSeq(NotesOf(notes_response), ClaimAnyNonSystem))

\* C4 as amended: a non-system note is among the candidates unless its
\* lowercased body contains 'requested review' or 'removed review request';
\* nothing else in its body matters.
C4_NonSystemIncludedUnlessReviewRequest ==
    pc = "return" =>
        LET claimed == SelectSeq(NotesOf(notes_response), ClaimNonSystemNoRequest)
            comments == SelectSeq(review_activities, IsCommentActivity)
        IN  /\ Len(comments) = Len(claimed)
            /\ \A k \in 1..Len(claimed) : comments[k].body = ClaimKeptBody(claimed[k])

\* C4 witness: of two non-system notes, 'unrelated status change' and
\* 'Requested Review from @bob', the first alone became a candidate.
C4_Witness ==
    /\ pc = "return"
    /\ Len(NotesOf(notes_response)) = 2
    /\ NotesOf(notes_response)[1].system = Some(FALSE)
    /\ NotesOf(notes_response)[1].body = Some(BodyUnrelated)
    /\ NotesOf(notes_response)[2].system = None
    /\ NotesOf(notes_response)[2].body = Some(BodyRequestedReviewUpper)
    /\ Len(review_activities) = 1
    /\ review_activities[1].type = "comment"

-----------------------------------------------------------------------------
(* Claims: the GitLab get_first_review_time (SpecGitLabReview) *)

\* the instants of the candidates the call collected
CandidateTimes == { review_activities[k].time : k \in 1..Len(review_activities) }

\* C5: when the notes request and the request-detail request both succeed,
\* the function returns None if and only if the candidate list is empty;
\* otherwise it returns calculate_business_hours(creation, t) for t the
\* minimum instant over all candidates, wherever it stands in the list, and
\* that is 0, not None, when t is at or before the creation instant.
C5_EarliestCandidateOrNone ==
    (pc = "return" /\ notes_response.status = "ok" /\ mr_response.status = "ok") =>
        /\ returned_hours = None <=> review_activities = <<>>
        /\ review_activities # <<>> =>
              \E t \in CandidateTimes :
                  /\ \A u \in CandidateTimes : DatetimeGE(u, t)
                  /\ earliest_review_time = Some(t)
                  /\ returned_hours = Some(calculate_business_hours(mr_created_at, t))
                  /\ DatetimeGE(mr_created_at, t) => returned_hours = Some(ZeroDelta)

\* C5 witness: the notes arrived as a comment of the next Monday followed by
\* a comment of Tuesday, the request was created on Friday 17:00, and the call
\* returned 0 for the Tuesday comment.
C5_Witness ==
    /\ pc = "return"
    /\ mr_created_at = At(4, FiveOClock)
    /\ mr_response.status = "ok"
    /\ notes_response.status = "ok"
    /\ Len(NotesOf(notes_response)) = 2
    /\ NotesOf(notes_response)[1].created_at = WireTime(7, NineOClock, FALSE)
    /\ NotesOf(notes_response)[2].created_at = WireTime(1, NineOClock, FALSE)
    /\ Len(review_activities) = 2
    /\ earliest_review_time = Some(At(1, NineOClock))
    /\ returned_hours = Some(ZeroDelta)

-----------------------------------------------------------------------------
(* Claims: the GitHub get_first_review_time (SpecGitHubReview) *)

ItemsOf(resp) == resp.items

\* the instants of all items of both lists
GitHubAllTimes ==
    { parse_github_datetime(ItemsOf(comments_response)[k].created_at)[1] :
          k \in 1..Len(ItemsOf(comments_response)) }
    \cup { parse_github_datetime(ItemsOf(reviews_response)[k].submitted_at)[1] :
              k \in 1..Len(ItemsOf(reviews_response)) }

\* the instants of the first item of each list
GitHubFirstTimes ==
    { parse_github_datetime(ItemsOf(comments_response)[k].created_at)[1] :
          k \in 1..Len(ItemsOf(comments_response)) \cap {1} }
    \cup { parse_github_datetime(ItemsOf(reviews_response)[k].submitted_at)[1] :
              k \in 1..Len(ItemsOf(reviews_response)) \cap {1} }

\* both requests succeeded and every item carries a timestamp
GitHubAllRead ==
    /\ pc = "return"
    /\ comments_response.status = "ok"
    /\ reviews_response.status = "ok"
    /\ \A k \in 1..Len(ItemsOf(reviews_response)) :
           ItemsOf(reviews_response)[k].submitted_at # MalformedTime

\* both requests succeeded and the first review, if any, carries a timestamp
GitHubFirstsRead ==
    /\ pc = "return"
    /\ comments_response.status = "ok"
    /\ reviews_response.status = "ok"
    /\ ItemsOf(reviews_response) # <<>> =>
           ItemsOf(reviews_response)[1].submitted_at # MalformedTime

\* the least instant of a set, None for the empty set
LeastOf(S) ==
    IF S = {} THEN None
    ELSE Some(CHOOSE t \in S : \A u \in S : DatetimeGE(u, t))

\* C6 as stated: every item of the review-comments list and of the
\* formal-reviews list is a candidate, so the instant paired with the creation
\* instant is the minimum over all items of both lists, in whatever order
\* the lists arrive.
C6_MinimumOverAllItems ==
    GitHubAllRead =>
        /\ earliest_review_time = LeastOf(GitHubAllTimes)
        /\ returned_hours =
               IF GitHubAllTimes = {} THEN None
               ELSE Some(calculate_business_hours(mr_created_at,
                                                  LeastOf(GitHubAllTimes)[1]))

\* C6 as amended: no exclusion filter is applied, and the candidates are the
\* first item of the review-comments list and the first item of the
\* formal-reviews list; the instant paired with the creation instant is the
\* earlier of these two, and later items of either list are never read.
C6_MinimumOverFirstItems ==
    GitHubFirstsRead =>
        /\ earliest_review_time = LeastOf(GitHubFirstTimes)
        /\ returned_hours =
               IF GitHubFirstTimes = {} THEN None
               ELSE Some(calculate_business_hours(mr_created_at,
                                                  LeastOf(GitHubFirstTimes)[1]))

\* C6 witness: the comments arrived as one of the next Monday followed by one
\* of Tuesday, the reviews as one of Friday, and Friday was paired with the
\* creation instant.
C6_Witness ==
    /\ pc = "return"
    /\ mr_created_at = At(0, NineOClock)
    /\ comments_response.status = "ok"
    /\ reviews_response.status = "ok"
    /\ ItemsOf(comments_response) =
           <<[created_at |-> WireTime(7, NineOClock, FALSE)],
             [created_at |-> WireTime(1, NineOClock, FALSE)]>>
    /\ ItemsOf(reviews_response) = <<[submitted_at |-> WireTime(4, FiveOClock, FALSE)]>>
    /\ earliest_review_time = Some(At(4, FiveOClock))
    /\ returned_hours # None

-----------------------------------------------------------------------------
(* Claims: the aggregation step of main (SpecAggregate) *)

\* the indices of the requests the claims put in the activity subset
ClaimActive ==
    { i \in 1..Len(merge_requests) : comment_counts[i] > 0 \/ review_times[i] # None }

\* the k-th index of ClaimActive in input order
ClaimActiveAt(k) ==
    CHOOSE i \in ClaimActive : Cardinality({ j \in ClaimActive : j <= i }) = k

\* the indices of the requests with a review time
ClaimReviewed == { i \in 1..Len(merge_requests) : review_times[i] # None }

\* the sum of the review times of the requests of I
RECURSIVE ClaimSumReviewTimes(_)
ClaimSumReviewTimes(I) ==
    IF I = {} THEN ZeroDelta
    ELSE LET i == CHOOSE j \in I : TRUE
         IN  DeltaAdd(review_times[i][1], ClaimSumReviewTimes(I \ {i}))

ExampleCounts == <<0, 5, 0>>
ExampleReviewTimes == <<None, Some(Hours(2)), Some(Hours(3))>>

\* C2 as stated: for comment counts [0, 5, 0] and review times
\* [null, 2.0, 3.0] the reported mean comment count is 5.0.
C2_ReviewOnlyRequestLeftOutOfCommentMean ==
    (pc = "reported" /\ comment_counts = ExampleCounts
                     /\ review_times = ExampleReviewTimes)
        => report[1].comment_stats[1].mean = 50

\* C2 as amended: for comment counts [0, 5, 0] and review times
\* [null, 2.0, 3.0] the reported mean comment count is 2.5: the comment mean
\* is the sum of the comment counts of the activity subset over the size of
\* the subset, so a request that enters the subset only through a non-null
\* review time contributes its count of 0 to it.
C2_ReviewOnlyRequestCountsInCommentMean ==
    (pc = "reported" /\ report[1].comment_stats # None) =>
        LET stats == report[1].comment_stats[1]
        IN  /\ stats.avg_comments.den = Cardinality(ClaimActive)
            /\ stats.avg_comments.num =
                   SumInts([k \in 1..Cardinality(ClaimActive) |->
                               comment_counts[ClaimActiveAt(k)]])
            /\ (comment_counts = ExampleCounts /\ review_times = ExampleReviewTimes)
                   => stats.mean = 25 /\ stats.min = 0 /\ stats.max = 5

\* C2 witness: main has reported for counts [0, 5, 0] and review times
\* [null, 2.0, 3.0].
C2_Witness ==
    /\ pc = "reported"
    /\ comment_counts = ExampleCounts
    /\ review_times = ExampleReviewTimes
    /\ report[1].with_activity = 2
    /\ activity_comment_counts = <<5, 0>>

\* C7: request i is in the activity subset if and only if comment_counts[i] > 0
\* or review_times[i] is not None (a review time of 0 is not None); the subset
\* keeps the input order and the reported number is its size.
C7_ActivitySubset ==
    pc = "reported" =>
        /\ Len(mrs_with_activity) = Cardinality(ClaimActive)
        /\ Len(activity_comment_counts) = Cardinality(ClaimActive)
        /\ Len(activity_review_times) = Cardinality(ClaimActive)
        /\ report[1].with_activity = Cardinality(ClaimActive)
        /\ \A k \in 1..Cardinality(ClaimActive) :
              /\ mrs_with_activity[k] = merge_requests[ClaimActiveAt(k)]
              /\ activity_comment_counts[k] = comment_counts[ClaimActiveAt(k)]
              /\ activity_review_times[k] = review_times[ClaimActiveAt(k)]

\* C7 witness: main has reported for three requests of which the first has
\* neither comments nor a review time, the second has no comments and a
\* review time of 0, and the third has comments; the last two are the subset.
C7_Witness ==
    /\ pc = "reported"
    /\ comment_counts = <<0, 0, 1>>
    /\ review_times = <<None, Some(ZeroDelta), None>>
    /\ Len(mrs_with_activity) = 2
    /\ mrs_with_activity[1].iid = 2
    /\ mrs_with_activity[2].iid = 3

\* C8: the reported average review time is the mean of exactly the non-null
\* review times of the activity subset; a request of the subset with a null
\* review time is left out of it but counted in the activity total; counts
\* [0, 5, 0] with review times [null, 2.0, 3.0] give 2.5 hours.
C8_ReviewMeanOverNonNull ==
    pc = "reported" =>
        /\ report[1].review_stats = None <=> ClaimReviewed = {}
        /\ ClaimReviewed # {} =>
              /\ report[1].review_stats[1].n = Cardinality(ClaimReviewed)
              /\ report[1].review_stats[1].sum = ClaimSumReviewTimes(ClaimReviewed)
        /\ report[1].with_activity = Cardinality(ClaimActive)
        /\ (comment_counts = ExampleCounts /\ review_times = ExampleReviewTimes)
              => report[1].review_stats = Some([sum |-> Hours(5), n |-> 2])

\* C8 witness: main has reported for a request with comments and no review
\* time next to a request with a review time of 2 hours: two requests with
\* activity, one review time in the mean.
C8_Witness ==
    /\ pc = "reported"
    /\ comment_counts = <<5, 0>>
    /\ review_times = <<None, Some(Hours(2))>>
    /\ report[1].with_activity = 2
    /\ report[1].review_stats = Some([sum |-> Hours(2), n |-> 1])


-----------------------------------------------------------------------------
(* Claims: the empty activity subset (SpecAggregate) *)

\* every comment count is 0 and every review time is None
ClaimNoActivityAtAll ==
    /\ \A i \in 1..Len(comment_counts) : comment_counts[i] = 0
    /\ \A i \in 1..Len(review_times) : review_times[i] = None

\* C13: when at least one request was fetched and every comment count is 0
\* and every review time is None, main reports 0 requests with activity, the
\* 'no comments' line and the 'no reviews' line: no mean, maximum or minimum
\* is taken of the empty lists, and the step from the filled lists to the
\* report can always be taken.
C13_EmptySubsetReportsSentinels ==
    /\ (pc = "pooled" /\ Len(merge_requests) >= 1 /\ ClaimNoActivityAtAll)
           => ENABLED Aggregate
    /\ (pc = "reported" /\ Len(merge_requests) >= 1 /\ ClaimNoActivityAtAll)
           => /\ mrs_with_activity = <<>>
              /\ activity_comment_counts = <<>>
              /\ activity_review_times = <<>>
              /\ report = Some([with_activity |-> 0,
                                comment_stats |-> None,
                                review_stats |-> None])

\* C13 witness: main has reported for two fetched requests without a
\* comment and without a review.
C13_Witness ==
    /\ pc = "reported"
    /\ Len(merge_requests) = 2
    /\ comment_counts = <<0, 0>>
    /\ review_times = <<None, None>>
    /\ report # None
    /\ report[1].with_activity = 0

-----------------------------------------------------------------------------
(* Claims: the approvals probe (SpecGitLabReview) *)

\* the approvals request was sent
ClaimProbed == approvals_response.status # "not_requested"

\* the probe failed: the endpoint is absent or answers another status than
\* 200, the request raises, or a record of approved_by cannot be processed
ClaimProbeFailed ==
    \/ approvals_response.status # "200"
    \/ \E k \in 1..Len(approvals_response.approved_by) :
           approvals_response.approved_by[k].created_at = Some(MalformedTime)

ClaimIsApproval(activity) == activity.type = "approval"

\* the instants of the notes that are review candidates
ClaimNoteCandidateTimes ==
    LET claimed == SelectSeq(NotesOf(notes_response), ClaimCandidate)
    IN  { parse_gitlab_datetime(claimed[k].created_at)[1] : k \in 1..Len(claimed) }

\* what the function returns from the note candidates alone
ClaimFromNotesAlone ==
    IF ClaimNoteCandidateTimes = {}
        THEN None
        ELSE LET t == CHOOSE x \in ClaimNoteCandidateTimes :
                          \A u \in ClaimNoteCandidateTimes : DatetimeGE(u, x)
             IN  Some(calculate_business_hours(mr_created_at, t))

\* C12: whenever the approvals request is absent, answers a status other
\* than 200, raises, or fails while its records are processed, no approval
\* event is among the candidates and the function returns exactly what it
\* returns from the note candidates alone.
C12_FailedProbeAddsNoApproval ==
    (/\ pc = "return"
     /\ notes_response.status = "ok"
     /\ mr_response.status = "ok"
     /\ ClaimProbed
     /\ ClaimProbeFailed)
        => /\ SelectSeq(review_activities, ClaimIsApproval) = <<>>
           /\ returned_hours = ClaimFromNotesAlone

-----------------------------------------------------------------------------
(* Claims: the units of work and the pool (Spec) *)

\* a request of a unit of work failed: a transport error, an HTTP error
\* status, or a payload of unexpected shape
ClaimFailed(resp) == resp.status \in FailureStatuses \cup { "unexpected_payload" }

ClaimUnitFailed(responses) ==
    \/ ClaimFailed(responses.notes)
    \/ ClaimFailed(responses.mr)

ClaimFinished(workers) == { i \in 1..Len(workers) : workers[i].state = "finished" }

\* C11: a failure of any kind inside a unit of work (transport error, HTTP
\* error status, payload of unexpected shape) ends the unit with the sentinel
\* (0 comments, a null review time) and never with an exception; no
\* exception leaves main, and once the pool is left comment_counts and
\* review_times hold one value per request.
C11_FailuresBecomeSentinels ==
    /\ \A i \in ClaimFinished(comment_workers) :
           /\ comment_workers[i].outcome[1].raised = None
           /\ ClaimFailed(comment_workers[i].responses[1])
                  => comment_workers[i].outcome[1] = Returned(0)
    /\ \A i \in ClaimFinished(review_time_workers) :
           /\ review_time_workers[i].outcome[1].raised = None
           /\ ClaimUnitFailed(review_time_workers[i].responses[1])
                  => review_time_workers[i].outcome[1] = Returned(None)
    /\ uncaught = None
    /\ pc # "terminated"
    /\ pc \in { "pooled", "reported" }
           => /\ Len(comment_counts) = Len(merge_requests)
              /\ Len(review_times) = Len(merge_requests)


\* the with block is left: every work item ended and the pool is shut down
ClaimPoolFinished == pc \in { "pooled", "reported", "terminated" }

\* list[i] is what the unit of work of worker i ended with, and that is what
\* the unit makes of the responses given to request i
ClaimEntryIsResult(list, workers, i) ==
    /\ workers[i].state = "finished"
    /\ workers[i].outcome[1].raised = None
    /\ list[i] = workers[i].outcome[1].value[1]

ClaimEntriesInOrder ==
    /\ Len(comment_counts) = Len(merge_requests)
    /\ Len(review_times) = Len(merge_requests)
    /\ \A i \in 1..Len(merge_requests) :
           /\ ClaimEntryIsResult(comment_counts, comment_workers, i)
           /\ comment_workers[i].outcome[1] =
                  gitlab_get_review_comment_count(comment_workers[i].responses[1])
           /\ ClaimEntryIsResult(review_times, review_time_workers, i)
           /\ review_time_workers[i].outcome[1] =
                  first_review_time_unit(merge_requests[i].created_at,
                                         review_time_workers[i].responses[1])

\* the step in which the thread running work item t ends it
ClaimWorkerEnds(t) == Futures[t].state = "running" /\ Futures'[t].state = "finished"

\* such a step writes the future of its own work item and nothing else
ClaimWritesOwnSlotOnly ==
    \A t \in 1..Len(Futures) :
        ClaimWorkerEnds(t)
            => /\ \A u \in (1..Len(Futures)) \ { t } : Futures'[u] = Futures[u]
               /\ UNCHANGED <<comment_counts, review_times, collected>>

\* C14: under every interleaving and completion order of the workers, once
\* the pool has finished comment_counts and review_times hold exactly one
\* entry per fetched request and entry i of each is the result of the unit
\* of work submitted for request i; no worker writes another slot than its
\* own result.
C14_OneEntryPerRequestInOrder ==
    /\ [](ClaimPoolFinished => ClaimEntriesInOrder)
    /\ [][ClaimWritesOwnSlotOnly]_vars

=============================================================================
